---- MODULE Spec2Model ----
(***************************************************************************)
(* Clover raw-to-compressed tool (cltools/raw_to_compressed.go).           *)
(*                                                                         *)
(* Spec      : the RunRtc pipeline: the main task, the directory walker    *)
(*             findImagesInDir, the converter goroutine                    *)
(*             convertRawImagesToCompressed, the two buffered channels and *)
(*             the two wait groups.                                        *)
(* SpecConv  : convertToCompressed called on one image of either variant   *)
(*             (nefImage, cr2Image).                                       *)
(* SpecLoad  : rawImage.Load decoding, byte by byte, a file laid out from a *)
(*             description (header, IFD0, Sub-IFDs, GPS directory).        *)
(* SpecCodec : the byte decoders of utils and parseHeaderBytes.            *)
(* SpecFull  : RunRtc from the point where both channels are full, with    *)
(*             fair scheduling.                                            *)
(* SpecSdc   : the storage device checker: writeDataToLocation, the device *)
(*             altering a byte, verify.                                    *)
(***************************************************************************)
EXTENDS Integers, Sequences, FiniteSets, TLC

\* Bounds of the model.
MaxEntries == 2
MaxDepth == 2

\* make(chan bool, 32) / make(chan tiffImage, 32)
ChanCap == 32

VARIABLES
    params,                 \* RunRtc's arguments
    mainPc,                 \* position of RunRtc
    fswg,                   \* file searching wait group counter
    icwg,                   \* images to convert wait group counter
    itcc,                   \* imagesToConvertChan: queued image ids
    dsc,                    \* doneSearchingChan: queued booleans
    itccClosed,
    dscClosed,
    prod,                   \* findImagesInDir goroutine
    cons,                   \* convertRawImagesToCompressed goroutine
    images,                 \* every image opened by the walker, by id
    convertedImageCount,
    reported,               \* the count RunRtc printed, -1 before
    crashed,                \* an unrecovered panic ended the process
    desc,                   \* SpecLoad: the layout the image file was built from
    img                     \* SpecLoad: the rawImage (File, header, ifds) under Load

vars == <<desc, img, params, mainPc, fswg, icwg, itcc, dsc, itccClosed, dscClosed,
          prod, cons, images, convertedImageCount, reported, crashed>>

NoImage == 0

NoDesc == <<>>
NoImg == <<>>

Params == [inputType : {".nef", ".cr2"},
           outputType : {".jpg", ".png", ".bmp"},
           showConversionOutput : BOOLEAN,
           overwrite : BOOLEAN,
           recursive : BOOLEAN,
           retainFolderStructure : BOOLEAN]

supportedInputTypes == {".nef"}
supportedOutputTypes == {".jpg", ".png"}

\* What the file system and the image bytes make of one conversion.
\* "panic": parseIFDBytes indexes past a directory body or a tag buffer.
LoadOutcomes == {"tooSmall", "readErr", "panic", "oneIFD", "twoIFDs"}

ConvEnv == [mkdirFails : BOOLEAN,
            load : LoadOutcomes,
            createFails : BOOLEAN,
            jpegValid : BOOLEAN,
            encodeFails : BOOLEAN]

\* os.Open in findImagesInDir; the walker wraps the handle and never reads it.
NewImageMutantReads(variant, out) ==
    [variant |-> variant, st |-> "held", handle |-> "open", out |-> out,
     pre |-> out, exit |-> "none", err |-> "none", counted |-> FALSE, logged |-> FALSE,
     users |-> {"walker"}, ifds |-> 0]

NewImage(variant, out) ==
    [variant |-> variant, st |-> "held", handle |-> "open", out |-> out,
     pre |-> out, exit |-> "none", err |-> "none", counted |-> FALSE, logged |-> FALSE,
     users |-> {}, ifds |-> 0]

\* What a convertToJPEG / convertToPNG call leaves: the image, the error it
\* returned ("nil" for none), and whether it panicked instead of returning.
Ret(im, err, panic) == [im |-> [im EXCEPT !.err = err], err |-> err, panic |-> panic]

\* rawImage.Load as seen by its caller: the task that calls it reads and seeks
\* the handle.
LoadTouch(im) == [im EXCEPT !.users = @ \cup {"converter"}]

\* len(ni.rawImage.ifds) after ni.Load() returned nil
IfdCount(load) == IF load = "twoIFDs" THEN 2 ELSE IF load = "oneIFD" THEN 1 ELSE 0

\* if len(ni.rawImage.ifds) >= 2
HasPreviewMutantAny(n) == n >= 1

HasPreview(n) == n >= 2

\* nefImage.convertToJPEG
nefConvertToJPEG(im, env) ==
    LET ld == [LoadTouch(im) EXCEPT !.ifds = IfdCount(env.load)] IN
    \* Load runs before the deferred Close is registered
    IF env.load = "panic"
    THEN Ret([ld EXCEPT !.exit = "loadPanic"], "panic", TRUE)
    ELSE IF env.load \in {"tooSmall", "readErr"}
    THEN Ret([ld EXCEPT !.handle = "closed", !.exit = "loadFail"], env.load, FALSE)
    ELSE IF ~HasPreview(ld.ifds)
    THEN Ret([ld EXCEPT !.handle = "closed", !.exit = "fewIFDs"], "nil", FALSE)
    ELSE IF env.createFails
    THEN Ret([ld EXCEPT !.handle = "closed", !.exit = "createFail",
                        !.logged = TRUE], "createErr", FALSE)
    ELSE IF ~env.jpegValid
    \* jpeg.Decode returned (nil, err); jpeg.Encode(jpgFile, nil, nil) then
    \* calls Bounds() on the nil image. The deferred Close calls run.
    THEN Ret([ld EXCEPT !.handle = "closed", !.exit = "decodeFail",
                        !.logged = TRUE, !.out = "empty"], "panic", TRUE)
    ELSE IF env.encodeFails
    \* conversionError = jpeg.Encode(...) is overwritten by conversionError = nil
    THEN Ret([ld EXCEPT !.handle = "closed", !.exit = "encodeFail",
                        !.out = "partial"], "nil", FALSE)
    ELSE Ret([ld EXCEPT !.handle = "closed", !.exit = "success",
                        !.out = "new"], "nil", FALSE)

\* nefImage.convertToPNG
nefConvertToPNG(im, env) ==
    LET ld == [LoadTouch(im) EXCEPT !.ifds = IfdCount(env.load)] IN
    \* Load runs before the deferred Close is registered
    IF env.load = "panic"
    THEN Ret([ld EXCEPT !.exit = "loadPanic"], "panic", TRUE)
    ELSE IF env.load \in {"tooSmall", "readErr"}
    THEN Ret([ld EXCEPT !.handle = "closed", !.exit = "loadFail"], env.load, FALSE)
    ELSE IF ~HasPreview(ld.ifds)
    THEN Ret([ld EXCEPT !.handle = "closed", !.exit = "fewIFDs"], "nil", FALSE)
    ELSE IF env.createFails
    THEN Ret([ld EXCEPT !.handle = "closed", !.exit = "createFail",
                        !.logged = TRUE], "createErr", FALSE)
    ELSE IF ~env.jpegValid
    THEN Ret([ld EXCEPT !.handle = "closed", !.exit = "decodeFail",
                        !.logged = TRUE, !.out = "empty"], "panic", TRUE)
    ELSE IF env.encodeFails
    THEN Ret([ld EXCEPT !.handle = "closed", !.exit = "encodeFail",
                        !.out = "partial"], "nil", FALSE)
    ELSE Ret([ld EXCEPT !.handle = "closed", !.exit = "success",
                        !.out = "new"], "nil", FALSE)

\* cr2Image.convertToJPEG: return nil
cr2ConvertToJPEG(im, env) == Ret([im EXCEPT !.exit = "cr2Stub"], "nil", FALSE)

\* cr2Image.convertToPNG: return nil
cr2ConvertToPNG(im, env) == Ret([im EXCEPT !.exit = "cr2Stub"], "nil", FALSE)

\* ti.convertToJPEG(outputPath): dispatch on the image's variant
convertToJPEG(im, env) ==
    IF im.variant = "nef" THEN nefConvertToJPEG(im, env) ELSE cr2ConvertToJPEG(im, env)

\* ti.convertToPNG(outputPath)
convertToPNG(im, env) ==
    IF im.variant = "nef" THEN nefConvertToPNG(im, env) ELSE cr2ConvertToPNG(im, env)

Outcome(im, inc, panic) == [im |-> im, inc |-> inc, panic |-> panic]

\* if _, err := os.Stat(outputPath); err == nil && !overwrite
OutputBlockedMutantIgnored(im, p) == FALSE

OutputBlocked(im, p) == im.out # "absent" /\ ~p.overwrite

\* convertToCompressed(ti, ...) for a non-nil ti with an open File
convertToCompressed(im, p, env) ==
    IF p.retainFolderStructure /\ env.mkdirFails
    THEN Outcome([im EXCEPT !.exit = "subDirFail", !.logged = TRUE], 0, FALSE)
    ELSE IF OutputBlocked(im, p)
    THEN Outcome([im EXCEPT !.exit = "outputExists",
                            !.logged = p.showConversionOutput], 0, FALSE)
    ELSE
        LET r == IF p.outputType = ".jpg" THEN convertToJPEG(im, env)
                 ELSE IF p.outputType = ".png" THEN convertToPNG(im, env)
                 ELSE Ret([im EXCEPT !.exit = "badOutputType",
                                     !.logged = p.showConversionOutput],
                          "nil", FALSE)
        IN  IF r.panic THEN Outcome(r.im, 0, TRUE)
            ELSE IF r.err # "nil"
            THEN Outcome([r.im EXCEPT !.logged = @ \/ p.showConversionOutput],
                         0, FALSE)
            ELSE Outcome([r.im EXCEPT !.counted = TRUE], 1, FALSE)

(***************************************************************************)
(* Byte codec (utils) and the TIFF decoder.  A uint16/uint32 is a number,  *)
(* a uint64 is its eight base-256 digits, most significant first.          *)
(***************************************************************************)
BigEndian == 0
LittleEndian == 1

Min(a, b) == IF a < b THEN a ELSE b
Max(a, b) == IF a > b THEN a ELSE b

RECURSIVE BitOr(_, _)
BitOr(a, b) ==
    IF a = 0 THEN b
    ELSE IF b = 0 THEN a
    ELSE (IF a % 2 = 1 \/ b % 2 = 1 THEN 1 ELSE 0) + 2 * BitOr(a \div 2, b \div 2)

\* utils.ConvertBytesToUInt16
ConvertBytesToUInt16(byte1, byte2, endianOrder) ==
    IF endianOrder = BigEndian THEN byte1 * 256 + byte2
    ELSE IF endianOrder = LittleEndian THEN byte1 + byte2 * 256
    ELSE 0

\* utils.ConvertBytesToUInt32
ConvertBytesToUInt32MutantBigOnly(byte1, byte2, byte3, byte4, endianOrder) ==
    byte1 * 16777216 + byte2 * 65536 + byte3 * 256 + byte4

ConvertBytesToUInt32(byte1, byte2, byte3, byte4, endianOrder) ==
    IF endianOrder = BigEndian
    THEN byte1 * 16777216 + byte2 * 65536 + byte3 * 256 + byte4
    ELSE IF endianOrder = LittleEndian
    THEN byte1 + byte2 * 256 + byte3 * 65536 + byte4 * 16777216
    ELSE 0

\* utils.ConvertBytesSliceToUInt32
ConvertBytesSliceToUInt32(btc, eo) ==
    IF Len(btc) # 4 THEN 0
    ELSE ConvertBytesToUInt32(btc[1], btc[2], btc[3], btc[4], eo)

\* utils.ConvertBytesSliceToUInt32 in its two-result form: (uint32, error)
ConvertBytesSliceToUInt32WithError(btc, eo) ==
    IF Len(btc) # 4
    THEN [value |-> 0, err |-> "Bytes slice incorrect length for conversion"]
    ELSE [value |-> ConvertBytesToUInt32(btc[1], btc[2], btc[3], btc[4], eo),
          err |-> "nil"]

\* utils.ConvertBytesSliceToUInt16
ConvertBytesSliceToUInt16(btc, eo) ==
    IF Len(btc) # 2 THEN 0
    ELSE ConvertBytesToUInt16(btc[1], btc[2], eo)

\* utils.ConvertBytesToUInt64
ConvertBytesToUInt64(b1, b2, b3, b4, b5, b6, b7, b8, endianOrder) ==
    IF endianOrder = BigEndian THEN <<b1, b2, b3, b4, b5, b6, b7, b8>>
    ELSE IF endianOrder = LittleEndian THEN <<b8, b7, b6, b5, b4, b3, b2, b1>>
    ELSE <<0, 0, 0, 0, 0, 0, 0, 0>>

\* utils.ConvertBytesSliceToUInt64
ConvertBytesSliceToUInt64(btc, eo) ==
    IF Len(btc) # 8 THEN <<0, 0, 0, 0, 0, 0, 0, 0>>
    ELSE ConvertBytesToUInt64(btc[1], btc[2], btc[3], btc[4], btc[5], btc[6],
                              btc[7], btc[8], eo)

\* An *os.File: the file (its size, and its bytes: data, then zeros up to
\* size), the handle's position, and the log of the reads made through it
\* (<<position, bytes asked, bytes read>>, in the order they were made).
ByteAt(f, off) ==
    IF off < f.size /\ off < Len(f.data) THEN f.data[off + 1] ELSE 0

\* file.Seek(off, os.SEEK_SET)
SeekMutantForwardOnly(h, off) == IF off < h.pos THEN h ELSE [h EXCEPT !.pos = off]

Seek(h, off) == [h EXCEPT !.pos = off]

\* file.Read(buf) into a zeroed buffer of n bytes: a short read leaves zeros
Read(h, n) ==
    LET got == Min(n, Max(0, h.f.size - h.pos)) IN
    [buf |-> [i \in 1..n |-> IF i <= got THEN ByteAt(h.f, h.pos + i - 1) ELSE 0],
     h |-> [h EXCEPT !.pos = @ + got, !.log = Append(@, <<h.pos, n, got>>)]]

\* getEdianOrder
getEdianOrderMutantFirstByte(header) ==
    IF Len(header) >= 4 /\ header[1] = 73 THEN LittleEndian ELSE BigEndian

getEdianOrder(header) ==
    IF Len(header) >= 4
    THEN LET endianFlag == header[1] * 256 + header[2] IN
         IF endianFlag = 19789 THEN BigEndian          \* 0x4d4d
         ELSE IF endianFlag = 18761 THEN LittleEndian  \* 0x4949
         ELSE BigEndian
    ELSE BigEndian

\* parseHeaderBytes
parseHeaderBytes(header) ==
    LET eo == getEdianOrder(header) IN
    IF Len(header) >= 8
    THEN [err |-> "nil",
          hdr |-> [endianOrder |-> eo,
                   magicNum |-> BitOr(header[3], header[4]),
                   tiffOffset |-> ConvertBytesToUInt32(header[5], header[6],
                                        header[7], header[8], eo)]]
    ELSE [err |-> "Header incorrect length",
          hdr |-> [endianOrder |-> eo, magicNum |-> 0, tiffOffset |-> 0]]

\* if fileStats.Size() <= 1024
TooSmallMutantBelow(size) == size < 1024

TooSmall(size) == size <= 1024

\* readHeaderBytes; io is what Stat and Read report
readHeaderBytes(h, io) ==
    IF io = "statErr" THEN [err |-> "statErr", header |-> <<>>, h |-> h]
    ELSE IF TooSmall(h.f.size)
    THEN [err |-> "File is less than 1KB in size", header |-> <<>>, h |-> h]
    ELSE LET r == Read(Seek(h, 0), 8) IN
         IF io = "readErr" THEN [err |-> "readErr", header |-> r.buf, h |-> r.h]
         ELSE [err |-> "nil", header |-> r.buf, h |-> r.h]

\* readIFDBytes: ifdTagCount*12 is a uint16 product; both reads follow a
\* seek from the start of the file (os.SEEK_SET). (Offsets here stay
\* below 2^31, so the uint32 sum ifdOffset+2 does not wrap.)
readIFDBytes(h, ifdOffset, endianOrder) ==
    LET c == Read(Seek(h, ifdOffset), 2)
        ifdTagCount == ConvertBytesToUInt16(c.buf[1], c.buf[2], endianOrder)
        d == Read(Seek(c.h, ifdOffset + 2), (ifdTagCount * 12) % 65536)
    IN  [ifdData |-> d.buf, h |-> d.h]

\* Tag ids and data types (the const block of raw_to_compressed.go)
unsignedByteType == 1
asciiStringsType == 2
unsignedShortType == 3
unsignedLongType == 4
unsignedRationalType == 5

subfileTypeTag == 254
imageWidthTag == 256
imageHeightTag == 257
bitsPerSampleTag == 258
compressionTag == 259
photometricInterpretationTag == 262
makeTag == 271
modelTag == 272
stripOffsetsTag == 273
orientationTag == 274
samplesPerPixelTag == 277
rowsPerStripTag == 278
stripByteCountsTag == 279
xResolutionTag == 282
yResolutionTag == 283
planarConfigurationTag == 284
resolutionUnitTag == 296
softwareTag == 305
modifyDateTag == 306
artistTag == 315
subIFDA100DataOffsetTag == 330
jpegFromRawStartTag == 513
jpegFromRawLengthTag == 514
yCbCrPositioningTag == 531
referenceBlackWhiteTag == 532
imageFullWidthTag == 33300
imageFullHeightTag == 33301
exifOffsetTag == 34665
gpsInfoTag == 34853
dateTimeOriginalTag == 36867
tiffEPStandardIDTag == 37398
GPSVersionID == 0

\* &tiffIFD{}: zero values; a nil slice and an empty one are both <<>>
EmptyIFD ==
    [SubFileType |-> 0, ImageWidth |-> 0, ImageHeight |-> 0,
     ImageFullWidth |-> 0, ImageFullHeight |-> 0, BitsPerSample |-> <<>>,
     CompressionFlag |-> 0, PhotometricInterpretationFlag |-> 0,
     ImageMakeTag |-> <<>>, ImageModelTag |-> <<>>, StripOffsets |-> 0,
     OrientationFlag |-> 0, SamplesPerPixel |-> 0, RowsPerStrip |-> 0,
     StripByteCounts |-> 0, XResolution |-> 0, YResolution |-> 0,
     PlanarConfiguration |-> 0, ResolutionUnit |-> 0,
     SoftwareTextData |-> <<>>, DateTimeText |-> <<>>, SubIFDOffsets |-> <<>>,
     ReferenceBlackWhite |-> <<0, 0, 0, 0, 0, 0, 0, 0>>, ExifOffset |-> 0,
     GpsInfo |-> 0, GpsIFD |-> <<>>, DateTimeOriginalText |-> <<>>,
     TiffEPStandardID |-> <<>>, JpegFromRawStart |-> 0,
     JpegFromRawLength |-> 0, YCbCrPositioning |-> 0]

\* Tag ids that no case of parseIFDBytes names
UnknownTag == 1
UnknownTags == {UnknownTag, 511, 65535}

\* The cases of parseIFDBytes that store dataValueOrDataOffsetAsInt:
\* tag -> <<expected type, field>>
ValueCasesMutantUnknown == UnknownTag :> <<unsignedLongType, "ImageWidth">>

ValueCases ==
    (imageWidthTag :> <<unsignedLongType, "ImageWidth">>) @@
    (imageHeightTag :> <<unsignedLongType, "ImageHeight">>) @@
    (imageFullWidthTag :> <<unsignedLongType, "ImageFullWidth">>) @@
    (imageFullHeightTag :> <<unsignedLongType, "ImageFullHeight">>) @@
    (stripOffsetsTag :> <<unsignedLongType, "StripOffsets">>) @@
    (rowsPerStripTag :> <<unsignedLongType, "RowsPerStrip">>) @@
    (stripByteCountsTag :> <<unsignedLongType, "StripByteCounts">>) @@
    (xResolutionTag :> <<unsignedRationalType, "XResolution">>) @@
    (yResolutionTag :> <<unsignedRationalType, "YResolution">>) @@
    (exifOffsetTag :> <<unsignedLongType, "ExifOffset">>) @@
    (jpegFromRawStartTag :> <<unsignedLongType, "JpegFromRawStart">>) @@
    (jpegFromRawLengthTag :> <<unsignedLongType, "JpegFromRawLength">>)

\* The cases that store ConvertBytesToUInt16(ifdData[i+8], ifdData[i+9])
ShortCases ==
    (compressionTag :> <<unsignedShortType, "CompressionFlag">>) @@
    (photometricInterpretationTag :>
        <<unsignedShortType, "PhotometricInterpretationFlag">>) @@
    (orientationTag :> <<unsignedShortType, "OrientationFlag">>) @@
    (samplesPerPixelTag :> <<unsignedShortType, "SamplesPerPixel">>) @@
    (planarConfigurationTag :> <<unsignedShortType, "PlanarConfiguration">>) @@
    (resolutionUnitTag :> <<unsignedShortType, "ResolutionUnit">>) @@
    (yCbCrPositioningTag :> <<unsignedShortType, "YCbCrPositioning">>)

\* The cases that seek to the value and read numOfElementsAsInt bytes
\* (artistTag reads and stores nothing)
BufferCases ==
    (bitsPerSampleTag :> <<unsignedShortType, "BitsPerSample">>) @@
    (makeTag :> <<asciiStringsType, "ImageMakeTag">>) @@
    (modelTag :> <<asciiStringsType, "ImageModelTag">>) @@
    (softwareTag :> <<asciiStringsType, "SoftwareTextData">>) @@
    (modifyDateTag :> <<asciiStringsType, "DateTimeText">>) @@
    (artistTag :> <<asciiStringsType, "">>) @@
    (dateTimeOriginalTag :> <<asciiStringsType, "DateTimeOriginalText">>) @@
    (tiffEPStandardIDTag :> <<unsignedByteType, "TiffEPStandardID">>)

\* uint8(dataFormatAsInt) == <expected type>
TypeMatches(dataFormatAsInt, expected) == dataFormatAsInt % 256 = expected

\* parseGPSIFDBytes: the records of a GPS directory, from byte i on
RECURSIVE parseGPSIFDBytesFrom(_, _, _, _)
parseGPSIFDBytesFrom(gifd, d, i, hdr) ==
    IF i >= Len(d) THEN [gifd |-> gifd, panic |-> FALSE]
    ELSE IF i + 7 >= Len(d) THEN [gifd |-> gifd, panic |-> TRUE]
    ELSE
        LET eo == hdr.endianOrder
            tagAsInt == ConvertBytesToUInt16(d[i + 1], d[i + 2], eo)
            dataFormatAsInt == ConvertBytesToUInt16(d[i + 3], d[i + 4], eo)
            numOfElementsAsInt ==
                ConvertBytesToUInt32(d[i + 5], d[i + 6], d[i + 7], d[i + 8], eo)
        IN  IF /\ tagAsInt = GPSVersionID
               /\ TypeMatches(dataFormatAsInt, unsignedByteType)
               /\ numOfElementsAsInt = 4
            THEN IF i + 11 >= Len(d) THEN [gifd |-> gifd, panic |-> TRUE]
                 ELSE parseGPSIFDBytesFrom(
                        [gifd EXCEPT !.GPSVersionID =
                            IF eo = BigEndian
                            THEN <<d[i + 9], d[i + 10], d[i + 11], d[i + 12]>>
                            ELSE IF eo = LittleEndian
                            THEN <<d[i + 12], d[i + 11], d[i + 10], d[i + 9]>>
                            ELSE <<>>],
                        d, i + 12, hdr)
            ELSE parseGPSIFDBytesFrom(gifd, d, i + 12, hdr)

\* parseGPSIFDBytes
parseGPSIFDBytes(ifdData, hdr) ==
    parseGPSIFDBytesFrom([GPSVersionID |-> <<>>], ifdData, 0, hdr)

\* One 12-byte record of parseIFDBytes: the switch on tagAsInt.
\* st is the directory built so far, the file handle, and whether a panic
\* (index or slice bound out of range) has ended the decode.
parseIFDRecord(st, d, i, hdr) ==
    LET eo == hdr.endianOrder
        tagAsInt == ConvertBytesToUInt16(d[i + 1], d[i + 2], eo)
        dataFormatAsInt == ConvertBytesToUInt16(d[i + 3], d[i + 4], eo)
        numOfElementsAsInt ==
            ConvertBytesToUInt32(d[i + 5], d[i + 6], d[i + 7], d[i + 8], eo)
        dataValueOrDataOffsetAsInt ==
            ConvertBytesToUInt32(d[i + 9], d[i + 10], d[i + 11], d[i + 12], eo)
    IN
    CASE tagAsInt = subfileTypeTag ->
            IF TypeMatches(dataFormatAsInt, unsignedLongType)
               /\ numOfElementsAsInt = 1
            THEN [st EXCEPT !.ifd.SubFileType =
                    IF d[i + 12] = 1 THEN 1
                    ELSE IF d[i + 11] = 1 THEN 2
                    ELSE IF d[i + 10] = 1 THEN 3
                    ELSE IF d[i + 9] = 1 THEN 4
                    ELSE @]
            ELSE st
      [] tagAsInt \in DOMAIN ValueCases ->
            IF TypeMatches(dataFormatAsInt, ValueCases[tagAsInt][1])
            THEN [st EXCEPT !.ifd[ValueCases[tagAsInt][2]] =
                                dataValueOrDataOffsetAsInt]
            ELSE st
      [] tagAsInt \in DOMAIN ShortCases ->
            IF TypeMatches(dataFormatAsInt, ShortCases[tagAsInt][1])
            THEN [st EXCEPT !.ifd[ShortCases[tagAsInt][2]] =
                                ConvertBytesToUInt16(d[i + 9], d[i + 10], eo)]
            ELSE st
      [] tagAsInt \in DOMAIN BufferCases ->
            IF TypeMatches(dataFormatAsInt, BufferCases[tagAsInt][1])
            THEN LET r == Read(Seek(st.h, dataValueOrDataOffsetAsInt),
                               numOfElementsAsInt)
                 IN  IF BufferCases[tagAsInt][2] = ""
                     THEN [st EXCEPT !.h = r.h]
                     ELSE [st EXCEPT !.h = r.h,
                                     !.ifd[BufferCases[tagAsInt][2]] = r.buf]
            ELSE st
      [] tagAsInt = subIFDA100DataOffsetTag ->
            IF TypeMatches(dataFormatAsInt, unsignedLongType)
            THEN \* make([]byte, 4*numOfElementsAsInt): a uint32 product
                 LET size == 4 * (numOfElementsAsInt % 1073741824)
                     r == Read(Seek(st.h, dataValueOrDataOffsetAsInt), size)
                 IN  IF 4 * numOfElementsAsInt > size
                     THEN [st EXCEPT !.h = r.h, !.panic = TRUE]
                     ELSE [st EXCEPT !.h = r.h,
                            !.ifd.SubIFDOffsets =
                                [j \in 1..numOfElementsAsInt |->
                                    ConvertBytesSliceToUInt32(
                                        SubSeq(r.buf, 4 * j - 3, 4 * j), eo)]]
            ELSE st
      [] tagAsInt = referenceBlackWhiteTag ->
            IF TypeMatches(dataFormatAsInt, unsignedRationalType)
            THEN \* make([]byte, 8*numOfElementsAsInt), then [0]..[7]
                 LET size == 8 * (numOfElementsAsInt % 536870912)
                     r == Read(Seek(st.h, dataValueOrDataOffsetAsInt), size)
                 IN  IF size < 8
                     THEN [st EXCEPT !.h = r.h, !.panic = TRUE]
                     ELSE [st EXCEPT !.h = r.h,
                            !.ifd.ReferenceBlackWhite =
                                ConvertBytesToUInt64(r.buf[1], r.buf[2],
                                    r.buf[3], r.buf[4], r.buf[5], r.buf[6],
                                    r.buf[7], r.buf[8], eo)]
            ELSE st
      [] tagAsInt = gpsInfoTag ->
            IF TypeMatches(dataFormatAsInt, unsignedLongType)
            THEN LET g == readIFDBytes(st.h, dataValueOrDataOffsetAsInt, eo)
                     gp == parseGPSIFDBytes(g.ifdData, hdr)
                 IN  [st EXCEPT !.h = g.h, !.ifd.GpsIFD = <<gp.gifd>>,
                                !.panic = gp.panic]
            ELSE st
      [] OTHER -> st

RECURSIVE parseIFDBytesFrom(_, _, _, _)
parseIFDBytesFrom(st, d, i, hdr) ==
    IF st.panic \/ i >= Len(d) THEN st
    ELSE IF i + 11 >= Len(d) THEN [st EXCEPT !.panic = TRUE]
    ELSE parseIFDBytesFrom([parseIFDRecord(st, d, i, hdr)
                                EXCEPT !.records = @ + 1],
                           d, i + 12, hdr)

\* parseIFDBytes(file, ifdData, tiffHeaderData)
parseIFDBytes(h, ifdData, hdr) ==
    parseIFDBytesFrom([ifd |-> EmptyIFD, h |-> h, panic |-> FALSE,
                       records |-> 0],
                      ifdData, 0, hdr)

\* parseIFDBytes(file, readIFDBytes(file, offset, endianOrder), header),
\* r being what readIFDBytes returned
parseIFDBytesOf(r, hdr) == parseIFDBytes(r.h, r.ifdData, hdr)

\* The loop of rawImage.Load over ifd0.SubIFDOffsets; q is the directory
\* decoded at offs[i]
RECURSIVE LoadSubIFDs(_, _, _, _, _)
LoadSubIFD(q, hdr, offs, i, ifds) ==
    IF q.panic THEN [ifds |-> ifds, h |-> q.h, panic |-> TRUE]
    ELSE LoadSubIFDs(q.h, hdr, offs, i + 1, Append(ifds, q.ifd))

LoadSubIFDs(h, hdr, offs, i, ifds) ==
    IF i > Len(offs) THEN [ifds |-> ifds, h |-> h, panic |-> FALSE]
    ELSE LoadSubIFD(parseIFDBytesOf(readIFDBytes(h, offs[i], hdr.endianOrder),
                                    hdr),
                    hdr, offs, i, ifds)

NoHeader == [endianOrder |-> BigEndian, magicNum |-> 0, tiffOffset |-> 0]

\* rawImage.Load once the header is parsed: p0 is the decoded IFD0
\* (records: how many 12-byte records of IFD0 the decoder went through)
LoadIFDs(hdr, p0) ==
    IF p0.panic
    THEN [err |-> "nil", header |-> hdr, ifds |-> <<>>, h |-> p0.h,
          panic |-> TRUE, records |-> p0.records]
    ELSE [err |-> "nil", header |-> hdr, panic |-> FALSE,
          records |-> p0.records]
            @@ LoadSubIFDs(p0.h, hdr, p0.ifd.SubIFDOffsets, 1, <<p0.ifd>>)

\* rawImage.Load once the header is read: ph is what parseHeaderBytes gave
LoadParsed(h, ph) ==
    IF ph.err # "nil"
    THEN [err |-> ph.err, header |-> ph.hdr, ifds |-> <<>>, h |-> h,
          panic |-> FALSE, records |-> 0]
    ELSE LoadIFDs(ph.hdr,
                  parseIFDBytesOf(readIFDBytes(h, ph.hdr.tiffOffset,
                                               ph.hdr.endianOrder), ph.hdr))

\* rawImage.Load from what readHeaderBytes gave
LoadRead(rh) ==
    IF rh.err # "nil"
    THEN [err |-> rh.err, header |-> NoHeader, ifds |-> <<>>, h |-> rh.h,
          panic |-> FALSE, records |-> 0]
    ELSE LoadParsed(rh.h, parseHeaderBytes(rh.header))

\* rawImage.Load
Load(h, io) == LoadRead(readHeaderBytes(h, io))

(***************************************************************************)
(* RunRtc                                                                  *)
(***************************************************************************)
Alive == ~crashed /\ mainPc \notin {"returned", "exited"}

Idle == [pc |-> "idle", depth |-> 0, held |-> NoImage, entries |-> 0,
         dirs |-> 0]

\* Argument checks, createDirectoryIfNotExists(outputDirectory), isDirectory,
\* then the two go statements.
MainStart ==
    /\ mainPc = "start" /\ ~crashed
    /\ \E fs \in {"dir", "mkdirFail", "notDir", "statErr"} :
        IF \/ params.inputType \notin supportedInputTypes
           \/ params.outputType \notin supportedOutputTypes
           \/ fs = "mkdirFail"
        THEN /\ mainPc' = "returned"
             /\ UNCHANGED <<fswg, icwg, prod, cons>>
        ELSE IF fs = "statErr"
        THEN /\ mainPc' = "exited"          \* logging.ErrorAndExit
             /\ UNCHANGED <<fswg, icwg, prod, cons>>
        ELSE IF fs = "notDir"
        THEN /\ mainPc' = "closeDsc"
             /\ UNCHANGED <<fswg, icwg, prod, cons>>
        ELSE /\ fswg' = fswg + 1
             /\ prod' = [Idle EXCEPT !.pc = "readDir", !.depth = 1, !.dirs = 1]
             /\ icwg' = icwg + 1
             /\ cons' = [pc |-> "recvCtrl", ri |-> NoImage, sentinel |-> FALSE]
             /\ mainPc' = "waitFs"
    /\ UNCHANGED <<desc, img, params, itcc, dsc, itccClosed, dscClosed, images,
                   convertedImageCount, reported, crashed>>

\* fswg.Wait()
MainWaitFsMutantNoWait ==
    /\ mainPc = "waitFs" /\ ~crashed
    /\ mainPc' = "sendTrue"
    /\ UNCHANGED <<desc, img, params, fswg, icwg, itcc, dsc, itccClosed, dscClosed, prod,
                   cons, images, convertedImageCount, reported, crashed>>

MainWaitFs ==
    /\ mainPc = "waitFs" /\ ~crashed
    /\ fswg = 0
    /\ mainPc' = "sendTrue"
    /\ UNCHANGED <<desc, img, params, fswg, icwg, itcc, dsc, itccClosed, dscClosed, prod,
                   cons, images, convertedImageCount, reported, crashed>>

\* doneSearchingChan <- true
MainSendTrue ==
    /\ mainPc = "sendTrue" /\ ~crashed
    /\ Len(dsc) < ChanCap
    /\ dsc' = Append(dsc, TRUE)
    /\ mainPc' = "waitIc"
    /\ UNCHANGED <<desc, img, params, fswg, icwg, itcc, itccClosed, dscClosed, prod,
                   cons, images, convertedImageCount, reported, crashed>>

\* icwg.Wait()
MainWaitIc ==
    /\ mainPc = "waitIc" /\ ~crashed
    /\ icwg = 0
    /\ mainPc' = "closeDsc"
    /\ UNCHANGED <<desc, img, params, fswg, icwg, itcc, dsc, itccClosed, dscClosed, prod,
                   cons, images, convertedImageCount, reported, crashed>>

\* close(doneSearchingChan)
MainCloseDsc ==
    /\ mainPc = "closeDsc" /\ ~crashed
    /\ dscClosed' = TRUE
    /\ mainPc' = "closeItcc"
    /\ UNCHANGED <<desc, img, params, fswg, icwg, itcc, dsc, itccClosed, prod,
                   cons, images, convertedImageCount, reported, crashed>>

\* close(imagesToConvertChan)
MainCloseItcc ==
    /\ mainPc = "closeItcc" /\ ~crashed
    /\ itccClosed' = TRUE
    /\ mainPc' = "report"
    /\ UNCHANGED <<desc, img, params, fswg, icwg, itcc, dsc, dscClosed, prod,
                   cons, images, convertedImageCount, reported, crashed>>

\* logging.Info("Successfully converted %d raw image%s"); RunRtc returns and
\* the process ends.
MainReport ==
    /\ mainPc = "report" /\ ~crashed
    /\ reported' = convertedImageCount
    /\ mainPc' = "returned"
    /\ UNCHANGED <<desc, img, params, fswg, icwg, itcc, dsc, itccClosed, dscClosed, prod,
                   cons, images, convertedImageCount, crashed>>

(***************************************************************************)
(* findImagesInDir: one goroutine; the recursive calls are plain calls, so *)
(* the walk is a stack of directory levels (depth).                        *)
(***************************************************************************)
\* ioutil.ReadDir(locationPath); on error log, return (deferred wg.Done())
ProdReadDir ==
    /\ prod.pc = "readDir" /\ Alive
    /\ \E ok \in BOOLEAN :
        IF ok
        THEN /\ prod' = [prod EXCEPT !.pc = "scan"]
             /\ UNCHANGED fswg
        ELSE /\ fswg' = fswg - 1
             /\ prod' = [prod EXCEPT !.depth = @ - 1,
                           !.pc = IF prod.depth = 1 THEN "done" ELSE "scan"]
    /\ UNCHANGED <<desc, img, params, mainPc, icwg, itcc, dsc, itccClosed, dscClosed,
                   cons, images, convertedImageCount, reported, crashed>>

\* An entry the loop passes over: a file without the input suffix, a file
\* os.Open fails on, or a directory when recursive is false.
ProdSkipEntry ==
    /\ prod.pc = "scan" /\ Alive
    /\ prod.entries < MaxEntries
    /\ \E kind \in {"otherFile", "openFails", "dir"} :
        /\ kind = "dir" => ~params.recursive
        /\ prod' = [prod EXCEPT !.entries = @ + 1]
    /\ UNCHANGED <<desc, img, params, mainPc, fswg, icwg, itcc, dsc, itccClosed,
                   dscClosed, cons, images, convertedImageCount, reported,
                   crashed>>

\* A file with the input suffix: os.Open, then the switch on inputType.
\* The output path of the image may or may not exist already.
ProdOpenImage ==
    /\ prod.pc = "scan" /\ Alive
    /\ prod.entries < MaxEntries
    /\ \E out \in {"absent", "old"} :
        images' = Append(images,
                    NewImage(IF params.inputType = ".nef" THEN "nef" ELSE "cr2",
                             out))
    /\ prod' = [prod EXCEPT !.entries = @ + 1, !.held = Len(images) + 1,
                            !.pc = "sendImg"]
    /\ UNCHANGED <<desc, img, params, mainPc, fswg, icwg, itcc, dsc, itccClosed,
                   dscClosed, cons, convertedImageCount, reported, crashed>>

\* *itcc <- ti
ProdSendImageMutantTokenFirst ==
    /\ prod.pc = "sendImg" /\ Alive
    /\ Len(dsc) < ChanCap
    /\ dsc' = Append(dsc, FALSE)
    /\ prod' = [prod EXCEPT !.pc = "sendTok"]
    /\ UNCHANGED <<desc, img, params, mainPc, fswg, icwg, itcc, itccClosed,
                   dscClosed, cons, images, convertedImageCount, reported,
                   crashed>>

ProdSendImage ==
    /\ prod.pc = "sendImg" /\ Alive
    /\ Len(itcc) < ChanCap
    /\ itcc' = Append(itcc, prod.held)
    /\ images' = [images EXCEPT ![prod.held].st = "queued"]
    /\ prod' = [prod EXCEPT !.pc = "sendTok"]
    /\ UNCHANGED <<desc, img, params, mainPc, fswg, icwg, dsc, itccClosed, dscClosed,
                   cons, convertedImageCount, reported, crashed>>

\* *dsc <- false
ProdSendFalseMutantNoToken ==
    /\ prod.pc = "sendTok" /\ Alive
    /\ prod' = [prod EXCEPT !.pc = "scan", !.held = NoImage]
    /\ UNCHANGED <<desc, img, params, mainPc, fswg, icwg, itcc, dsc, itccClosed,
                   dscClosed, cons, images, convertedImageCount, reported,
                   crashed>>

ProdSendFalse ==
    /\ prod.pc = "sendTok" /\ Alive
    /\ Len(dsc) < ChanCap
    /\ dsc' = Append(dsc, FALSE)
    /\ prod' = [prod EXCEPT !.pc = "scan", !.held = NoImage]
    /\ UNCHANGED <<desc, img, params, mainPc, fswg, icwg, itcc, itccClosed, dscClosed,
                   cons, images, convertedImageCount, reported, crashed>>

\* file.IsDir() && recursive: wg.Add(1); findImagesInDir(...) called in place
ProdEnterDir ==
    /\ prod.pc = "scan" /\ Alive
    /\ prod.entries < MaxEntries
    /\ prod.depth < MaxDepth
    /\ params.recursive
    /\ fswg' = fswg + 1
    /\ prod' = [prod EXCEPT !.entries = @ + 1, !.depth = @ + 1,
                            !.dirs = @ + 1, !.pc = "readDir"]
    /\ UNCHANGED <<desc, img, params, mainPc, icwg, itcc, dsc, itccClosed, dscClosed,
                   cons, images, convertedImageCount, reported, crashed>>

\* The range loop of a level ends: deferred wg.Done(), back in the caller.
ProdReturn ==
    /\ prod.pc = "scan" /\ Alive
    /\ fswg' = fswg - 1
    /\ prod' = [prod EXCEPT !.depth = @ - 1,
                            !.pc = IF prod.depth = 1 THEN "done" ELSE "scan"]
    /\ UNCHANGED <<desc, img, params, mainPc, icwg, itcc, dsc, itccClosed, dscClosed,
                   cons, images, convertedImageCount, reported, crashed>>

(***************************************************************************)
(* convertRawImagesToCompressed: for { if !<-*dsc {...} else {wg.Done()} } *)
(***************************************************************************)
\* <-*dsc; a closed, empty channel yields false. On true: wg.Done() and the
\* loop goes round again.
ConsRecvCtrl ==
    /\ cons.pc = "recvCtrl" /\ Alive
    /\ Len(dsc) > 0 \/ dscClosed
    /\ LET v == IF Len(dsc) > 0 THEN Head(dsc) ELSE FALSE IN
        /\ dsc' = IF Len(dsc) > 0 THEN Tail(dsc) ELSE dsc
        /\ IF v
           THEN /\ cons' = [cons EXCEPT !.sentinel = TRUE]
                /\ icwg' = IF icwg > 0 THEN icwg - 1 ELSE icwg
                /\ crashed' = (icwg = 0)   \* negative WaitGroup counter
           ELSE /\ cons' = [cons EXCEPT !.pc = "recvImg"]
                /\ UNCHANGED <<icwg, crashed>>
    /\ UNCHANGED <<desc, img, params, mainPc, fswg, itcc, itccClosed, dscClosed, prod,
                   images, convertedImageCount, reported>>

\* ri := <-*itcc; wg.Add(1). A closed, empty channel yields nil.
ConsRecvImage ==
    /\ cons.pc = "recvImg" /\ Alive
    /\ Len(itcc) > 0 \/ itccClosed
    /\ LET ri == IF Len(itcc) > 0 THEN Head(itcc) ELSE NoImage IN
        /\ itcc' = IF Len(itcc) > 0 THEN Tail(itcc) ELSE itcc
        /\ cons' = [cons EXCEPT !.ri = ri,
                      !.pc = IF ri # NoImage THEN "call" ELSE "wgDone"]
        /\ images' = IF ri # NoImage
                     THEN [images EXCEPT ![ri].st = "taken"] ELSE images
    /\ icwg' = icwg + 1
    /\ UNCHANGED <<desc, img, params, mainPc, fswg, dsc, itccClosed, dscClosed, prod,
                   convertedImageCount, reported, crashed>>

\* convertToCompressed(ri, ...) is entered
ConvBegin ==
    /\ cons.pc = "call" /\ Alive
    /\ images' = [images EXCEPT ![cons.ri].st = "converting"]
    /\ cons' = [cons EXCEPT !.pc = "inConv"]
    /\ UNCHANGED <<desc, img, params, mainPc, fswg, icwg, itcc, dsc, itccClosed,
                   dscClosed, prod, convertedImageCount, reported, crashed>>

\* convertToCompressed(ri, ...) returns or panics
ConvEnd ==
    /\ cons.pc = "inConv" /\ Alive
    /\ \E env \in ConvEnv :
        LET o == convertToCompressed(images[cons.ri], params, env) IN
        /\ images' = [images EXCEPT ![cons.ri] =
                        [o.im EXCEPT !.st = IF o.panic THEN "panicked"
                                           ELSE "returned"]]
        /\ convertedImageCount' = convertedImageCount + o.inc
        /\ crashed' = o.panic
    /\ cons' = [cons EXCEPT !.pc = "wgDone"]
    /\ UNCHANGED <<desc, img, params, mainPc, fswg, icwg, itcc, dsc, itccClosed,
                   dscClosed, prod, reported>>

\* wg.Done() after an image
ConsDoneMutantNoDone ==
    /\ cons.pc = "wgDone" /\ Alive
    /\ cons' = [cons EXCEPT !.pc = "recvCtrl", !.ri = NoImage]
    /\ UNCHANGED <<desc, img, params, mainPc, fswg, icwg, itcc, dsc, itccClosed,
                   dscClosed, prod, images, convertedImageCount, reported,
                   crashed>>

ConsDone ==
    /\ cons.pc = "wgDone" /\ Alive
    /\ icwg' = icwg - 1
    /\ cons' = [cons EXCEPT !.pc = "recvCtrl", !.ri = NoImage]
    /\ UNCHANGED <<desc, img, params, mainPc, fswg, itcc, dsc, itccClosed, dscClosed,
                   prod, images, convertedImageCount, reported, crashed>>

Init ==
    /\ params \in Params
    /\ mainPc = "start"
    /\ fswg = 0 /\ icwg = 0
    /\ itcc = <<>> /\ dsc = <<>>
    /\ itccClosed = FALSE /\ dscClosed = FALSE
    /\ prod = Idle
    /\ cons = [pc |-> "idle", ri |-> NoImage, sentinel |-> FALSE]
    /\ images = <<>>
    /\ convertedImageCount = 0
    /\ reported = -1
    /\ crashed = FALSE
    /\ desc = NoDesc /\ img = NoImg

Next ==
    \/ MainStart \/ MainWaitFs \/ MainSendTrue \/ MainWaitIc
    \/ MainCloseDsc \/ MainCloseItcc \/ MainReport
    \/ ProdReadDir \/ ProdSkipEntry \/ ProdOpenImage \/ ProdSendImage
    \/ ProdSendFalse \/ ProdEnterDir \/ ProdReturn
    \/ ConsRecvCtrl \/ ConsRecvImage \/ ConvBegin \/ ConvEnd \/ ConsDone

Spec == Init /\ [][Next]_vars

(***************************************************************************)
(* RunRtc with both channels full: the walker has found ChanCap + 1        *)
(* images and sent each one and its token, and the converter goroutine has *)
(* taken the first one and is back at its receive.  The output of each of  *)
(* these images exists and overwrite is off, so their conversions return   *)
(* at the overwrite check; the entries the walker still has to read are as *)
(* in Spec.  Every goroutine that can take a step eventually takes one.    *)
(***************************************************************************)
InitFull ==
    /\ params \in {p \in Params :
                    /\ p.inputType = ".nef" /\ p.outputType = ".jpg"
                    /\ ~p.overwrite /\ ~p.retainFolderStructure
                    /\ ~p.showConversionOutput}
    /\ mainPc = "waitFs"
    /\ fswg = 1 /\ icwg = 1
    /\ itcc = [i \in 1..ChanCap |-> i + 1]
    /\ dsc = [i \in 1..ChanCap |-> FALSE]
    /\ itccClosed = FALSE /\ dscClosed = FALSE
    /\ prod = [Idle EXCEPT !.pc = "scan", !.depth = 1, !.dirs = 1]
    /\ cons = [pc |-> "recvCtrl", ri |-> NoImage, sentinel |-> FALSE]
    /\ images = [i \in 1..(ChanCap + 1) |->
                    IF i = 1
                    THEN [convertToCompressed(
                            NewImage("nef", "old"), params,
                            CHOOSE env \in ConvEnv : TRUE).im
                          EXCEPT !.st = "returned"]
                    ELSE [NewImage("nef", "old") EXCEPT !.st = "queued"]]
    /\ convertedImageCount = 0
    /\ reported = -1
    /\ crashed = FALSE
    /\ desc = NoDesc /\ img = NoImg

MainStep ==
    \/ MainWaitFs \/ MainSendTrue \/ MainWaitIc
    \/ MainCloseDsc \/ MainCloseItcc \/ MainReport

ProdStep ==
    \/ ProdReadDir \/ ProdSkipEntry \/ ProdOpenImage \/ ProdSendImage
    \/ ProdSendFalse \/ ProdEnterDir \/ ProdReturn

ConsStep ==
    \/ ConsRecvCtrl \/ ConsRecvImage \/ ConvBegin \/ ConvEnd \/ ConsDone

NextFull == MainStep \/ ProdStep \/ ConsStep

SpecFull ==
    /\ InitFull /\ [][NextFull]_vars
    /\ WF_vars(MainStep) /\ WF_vars(ProdStep) /\ WF_vars(ConsStep)

(***************************************************************************)
(* convertToCompressed on its own: one opened image of either variant.     *)
(***************************************************************************)
InitConv ==
    /\ params \in Params
    /\ mainPc = "unit"
    /\ fswg = 0 /\ icwg = 0
    /\ itcc = <<>> /\ dsc = <<>>
    /\ itccClosed = FALSE /\ dscClosed = FALSE
    /\ prod = Idle
    /\ cons = [pc |-> "call", ri |-> 1, sentinel |-> FALSE]
    /\ \E variant \in {"nef", "cr2"}, out \in {"absent", "old"} :
        images = <<[NewImage(variant, out) EXCEPT !.st = "taken"]>>
    /\ convertedImageCount = 0
    /\ reported = -1
    /\ crashed = FALSE
    /\ desc = NoDesc /\ img = NoImg

NextConv == ConvBegin \/ ConvEnd

SpecConv == InitConv /\ [][NextConv]_vars

(***************************************************************************)
(* Image files for SpecLoad.  A file is laid out from a description:       *)
(*    0  header: byte-order marker, magic 42, offset of IFD0 (8)           *)
(*    8  IFD0: the probe record, then a GPS pointer record and a Sub-IFD   *)
(*       offsets record when the description has them                      *)
(*   then the Sub-IFD offsets array, the probe's out-of-line data, the GPS *)
(*   directory and the Sub-IFDs, 18 bytes each                             *)
(***************************************************************************)
MaxSubIFDs == 2

\* Lengths fixed by the code: readHeaderBytes reads 8 bytes, readIFDBytes a
\* 2-byte count and 12 bytes for each record
HeaderLen == 8
CountLen == 2
RecordLen == 12

IFD0At == HeaderLen
SubArrayAt == IFD0At + CountLen + 3 * RecordLen + 4
ProbeDataAt == SubArrayAt + 4 * (MaxSubIFDs + 2)
GPSAt == ProbeDataAt + 8
SubIFDLen == CountLen + RecordLen + 4
SubIFDAt == GPSAt + SubIFDLen
SubWidthBase == 100
ProbeValue == 7

EncU16(v, eo) ==
    IF eo = BigEndian THEN <<v \div 256, v % 256>> ELSE <<v % 256, v \div 256>>

EncU32(v, eo) ==
    IF eo = BigEndian
    THEN <<v \div 16777216, (v \div 65536) % 256, (v \div 256) % 256, v % 256>>
    ELSE <<v % 256, (v \div 256) % 256, (v \div 65536) % 256, v \div 16777216>>

EncRecord(tag, type, count, valueBytes, eo) ==
    EncU16(tag, eo) \o EncU16(type, eo) \o EncU32(count, eo) \o valueBytes

Zeros(n) == [i \in 1..n |-> 0]

Pad(bytes, n) == bytes \o Zeros(n - Len(bytes))

RECURSIVE Concat(_)
Concat(seqs) == IF seqs = <<>> THEN <<>> ELSE Head(seqs) \o Concat(Tail(seqs))

HandledTags ==
    {subfileTypeTag, subIFDA100DataOffsetTag, referenceBlackWhiteTag, gpsInfoTag}
        \cup DOMAIN ValueCases \cup DOMAIN ShortCases \cup DOMAIN BufferCases

\* The type each case of parseIFDBytes compares the record's type with
ExpectedType(tag) ==
    IF tag \in DOMAIN ValueCases THEN ValueCases[tag][1]
    ELSE IF tag \in DOMAIN ShortCases THEN ShortCases[tag][1]
    ELSE IF tag \in DOMAIN BufferCases THEN BufferCases[tag][1]
    ELSE IF tag = referenceBlackWhiteTag THEN unsignedRationalType
    ELSE unsignedLongType

\* The field of tiffIFD each case assigns ("" for artistTag: none)
FieldOf(tag) ==
    IF tag \in DOMAIN ValueCases THEN ValueCases[tag][2]
    ELSE IF tag \in DOMAIN ShortCases THEN ShortCases[tag][2]
    ELSE IF tag \in DOMAIN BufferCases THEN BufferCases[tag][2]
    ELSE IF tag = referenceBlackWhiteTag THEN "ReferenceBlackWhite"
    ELSE IF tag = subfileTypeTag THEN "SubFileType"
    ELSE IF tag = gpsInfoTag THEN "GpsIFD"
    ELSE "SubIFDOffsets"

\* The value field of the probe record, and the bytes its offset points to
ProbeValueBytes(tag, eo) ==
    IF tag \in DOMAIN ShortCases THEN EncU16(ProbeValue, eo) \o <<0, 0>>
    ELSE IF tag \in DOMAIN ValueCases THEN EncU32(ProbeValue, eo)
    ELSE IF tag = subfileTypeTag THEN EncU32(1, eo)
    ELSE IF tag = gpsInfoTag THEN EncU32(GPSAt, eo)
    ELSE EncU32(ProbeDataAt, eo)

ProbeCount(tag) == IF tag \in DOMAIN BufferCases THEN 2 ELSE 1

\* The number the probe record's value field holds
ProbeOffset(tag) ==
    IF tag \in DOMAIN ShortCases \cup DOMAIN ValueCases THEN ProbeValue
    ELSE IF tag = subfileTypeTag THEN 1
    ELSE IF tag = gpsInfoTag THEN GPSAt
    ELSE ProbeDataAt

\* Bytes per element of a TIFF data type
TypeSize(type) ==
    IF type = unsignedShortType THEN 2
    ELSE IF type = unsignedLongType THEN 4
    ELSE IF type = unsignedRationalType THEN 8
    ELSE 1

\* Where the handle is once readIFDBytes has read a one-record IFD0
DirEnd == IFD0At + CountLen + RecordLen

\* The two BitsPerSample values of the probe, and the bytes of its strings
BitsValues == <<8, 8>>
TextBytes == <<1, 2, 3, 4, 5, 6, 7, 8>>

ProbeData(tag, eo) ==
    IF tag = subIFDA100DataOffsetTag THEN EncU32(SubIFDAt, eo)
    ELSE IF tag = bitsPerSampleTag
    THEN EncU16(BitsValues[1], eo) \o EncU16(BitsValues[2], eo)
    ELSE TextBytes

GPSVersion == <<2, 3, 0, 0>>

\* The GPS directory: one record, GPSVersionID, four values of type BYTE
\* written in their order (TIFF 6.0: byte order applies to 16-bit and
\* larger values only)
GPSDirBytes(eo) ==
    EncU16(1, eo)
        \o EncRecord(GPSVersionID, unsignedByteType, 4, GPSVersion, eo)
        \o Zeros(4)

SubDirBytes(j, eo) ==
    EncU16(1, eo)
        \o EncRecord(imageWidthTag, unsignedLongType, 1,
                     EncU32(SubWidthBase + j, eo), eo)
        \o Zeros(4)

SubOffset(j) == SubIFDAt + SubIFDLen * j

FileOf(d) ==
    LET eo == d.eo
        recs == <<EncRecord(d.probeTag, d.probeType, ProbeCount(d.probeTag),
                            IF d.far THEN EncU32(d.size, eo)
                            ELSE ProbeValueBytes(d.probeTag, eo), eo)>>
                \o (IF d.gps
                    THEN <<EncRecord(gpsInfoTag, unsignedLongType, 1,
                                     EncU32(GPSAt, eo), eo)>>
                    ELSE <<>>)
                \o (IF d.k >= 0
                    THEN <<EncRecord(subIFDA100DataOffsetTag, d.subType, d.k,
                                     IF d.inline THEN EncU32(SubOffset(0), eo)
                                     ELSE EncU32(SubArrayAt, eo), eo)>>
                    ELSE <<>>)
        header == (IF d.marker = "MM" THEN <<77, 77>>
                   ELSE IF d.marker = "II" THEN <<73, 73>> ELSE <<0, 0>>)
                  \o EncU16(42, eo) \o EncU32(IFD0At, eo)
        ifd0 == EncU16(IF d.count >= 0 THEN d.count ELSE Len(recs), eo)
                    \o Concat(recs) \o Zeros(4)
        subArray == Concat([j \in 1..Max(d.k, 0) |-> EncU32(SubOffset(j - 1), eo)])
        subs == Concat([j \in 1..MaxSubIFDs + 1 |-> SubDirBytes(j - 1, eo)])
    IN  [size |-> d.size,
         data |-> header \o Pad(ifd0, SubArrayAt - IFD0At)
                    \o Pad(subArray, ProbeDataAt - SubArrayAt)
                    \o Pad(ProbeData(d.probeTag, eo), GPSAt - ProbeDataAt)
                    \o Pad(GPSDirBytes(eo), SubIFDAt - GPSAt)
                    \o subs]

DeclaredTypes == 1..5 \cup {t + 256 : t \in 1..5}

Endian(marker) == IF marker = "II" THEN LittleEndian ELSE BigEndian

BaseDesc ==
    [eo |-> BigEndian, marker |-> "MM", size |-> 2048, io |-> "ok",
     probeTag |-> imageWidthTag, probeType |-> unsignedLongType,
     gps |-> FALSE, k |-> -1, subType |-> unsignedLongType,
     inline |-> FALSE, count |-> -1, far |-> FALSE]

\* One-record directories: every handled tag under every declared type
ProbeDescs ==
    {[BaseDesc EXCEPT !.marker = m, !.eo = Endian(m), !.probeTag = t,
                      !.probeType = ty] :
        m \in {"MM", "II"}, t \in HandledTags \cup {UnknownTag},
        ty \in DeclaredTypes}

\* Directories with a GPS pointer and a Sub-IFD offsets tag of k offsets.
\* A single offset fits the record's value field (TIFF 6.0, section 2) and
\* is written there when inline is set; otherwise the offsets are an array
\* at SubArrayAt.
SubDescs ==
    {d \in {[BaseDesc EXCEPT !.marker = m, !.eo = Endian(m), !.gps = g,
                             !.k = k, !.subType = ty, !.inline = il] :
                m \in {"MM", "II"}, g \in BOOLEAN, k \in -1..MaxSubIFDs,
                ty \in {unsignedLongType, unsignedShortType},
                il \in BOOLEAN} :
        d.inline => d.k = 1}

\* Files Load gives up on, and files without a byte-order marker
EdgeDescs ==
    {[BaseDesc EXCEPT !.marker = m, !.eo = Endian(m), !.size = sz,
                      !.io = io, !.k = 1] :
        m \in {"MM", "II", "none"}, sz \in {0, 1024, 1025},
        io \in {"ok", "statErr", "readErr"}}

\* Directories whose first record has a tag the decoder does not handle,
\* followed by a GPS pointer and a Sub-IFD offsets tag of one offset
UnknownDescs ==
    {[BaseDesc EXCEPT !.marker = m, !.eo = Endian(m), !.probeTag = t,
                      !.probeType = ty, !.gps = TRUE, !.k = 1] :
        m \in {"MM", "II"}, t \in UnknownTags, ty \in DeclaredTypes}

\* Directories whose 2-byte prefix declares count records: the probe record
\* (ImageWidth), then records of zeros. 5461 is the last count whose body
\* length fits 16 bits; the body lengths of the larger ones wrap to 8, 20, 4,
\* 0 and 12 bytes.
TagCounts == {0, 1, 2, 3, 5462, 5463, 10923, 16384, 16385}

BigFileSize == 262144

CountDescs ==
    {[BaseDesc EXCEPT !.marker = m, !.eo = Endian(m), !.count = n,
                      !.size = BigFileSize] :
        m \in {"MM", "II"}, n \in TagCounts}

\* One-record directories whose record points at the end of the file: the
\* read of its out-of-line data, or of the tag count of the directory it
\* points to, gets no bytes (io.EOF)
FarTags == {makeTag, bitsPerSampleTag, referenceBlackWhiteTag, gpsInfoTag}

FarDescs ==
    {[BaseDesc EXCEPT !.marker = m, !.eo = Endian(m), !.probeTag = t,
                      !.probeType = ExpectedType(t), !.far = TRUE] :
        m \in {"MM", "II"}, t \in FarTags}

Descs == ProbeDescs \cup SubDescs \cup EdgeDescs \cup UnknownDescs
            \cup CountDescs \cup FarDescs

InitLoad ==
    /\ desc \in Descs
    /\ img = [h |-> [f |-> FileOf(desc), pos |-> 0, log |-> <<>>], header |-> NoHeader,
              ifds |-> <<>>, err |-> "none", st |-> "opened", records |-> 0]
    /\ params = CHOOSE p \in Params : TRUE
    /\ mainPc = "unit"
    /\ fswg = 0 /\ icwg = 0
    /\ itcc = <<>> /\ dsc = <<>>
    /\ itccClosed = FALSE /\ dscClosed = FALSE
    /\ prod = Idle
    /\ cons = [pc |-> "idle", ri |-> NoImage, sentinel |-> FALSE]
    /\ images = <<>>
    /\ convertedImageCount = 0
    /\ reported = -1
    /\ crashed = FALSE

\* The rawImage after Load returned l (or ended in a panic)
Loaded(l) ==
    [h |-> l.h, header |-> l.header, ifds |-> l.ifds, records |-> l.records,
     err |-> IF l.panic THEN "panic" ELSE l.err,
     st |-> IF l.panic THEN "panicked"
            ELSE IF l.err # "nil" THEN "failed" ELSE "loaded"]

\* ri.Load() on the opened file
LoadImage ==
    /\ img.st = "opened"
    /\ img' = Loaded(Load(img.h, desc.io))
    /\ UNCHANGED <<desc, params, mainPc, fswg, icwg, itcc, dsc, itccClosed,
                   dscClosed, prod, cons, images, convertedImageCount,
                   reported, crashed>>

SpecLoad == InitLoad /\ [][LoadImage]_vars

(***************************************************************************)
(* Inputs for SpecCodec: headers handed to parseHeaderBytes, bytes handed  *)
(* to the ConvertBytesTo* functions and slices handed to the               *)
(* ConvertBytesSliceTo* functions.                                         *)
(***************************************************************************)
MaxSliceLen == 9

MarkerBytes == {0, 73, 77, 255}
MagicBytes == {0, 1, 42, 255}
SliceBytes == {0, 7}
\* The most significant byte of a uint32 stays below 128 here
TopBytes == {0, 1, 127}
LowBytes == {0, 1, 255}
WideBytes == {1, 255}

Orders == {BigEndian, LittleEndian}

HeaderInputs ==
    {[kind |-> "header", eo |-> BigEndian,
      bytes |-> <<m1, m2, g1, g2, 0, 0, 0, HeaderLen>>] :
        m1 \in MarkerBytes, m2 \in MarkerBytes,
        g1 \in MagicBytes, g2 \in MagicBytes}

BytesInputs ==
    {[kind |-> "bytes16", eo |-> eo, bytes |-> <<b1, b2>>] :
        eo \in Orders, b1 \in LowBytes, b2 \in LowBytes}
    \cup {[kind |-> "bytes32", eo |-> eo, bytes |-> <<b1, b2, b3, b4>>] :
        eo \in Orders, b1 \in TopBytes, b2 \in LowBytes, b3 \in LowBytes,
        b4 \in TopBytes}
    \cup {[kind |-> "bytes64", eo |-> eo, bytes |-> b] :
        eo \in Orders, b \in [1..8 -> WideBytes]}

SliceKinds == {"slice16", "slice32", "slice32err", "slice64"}

Slices == UNION {[1..n -> SliceBytes] : n \in 0..MaxSliceLen}

SliceInputs ==
    {[kind |-> k, eo |-> eo, bytes |-> b] :
        k \in SliceKinds, eo \in Orders, b \in Slices}

\* The slice length each slice decoder accepts
Width(kind) ==
    IF kind = "slice16" THEN 2 ELSE IF kind = "slice64" THEN 8 ELSE 4

\* What the caller of a slice decoder gets back
SliceResult(kind, btc, eo) ==
    IF kind = "slice16" THEN ConvertBytesSliceToUInt16(btc, eo)
    ELSE IF kind = "slice32" THEN ConvertBytesSliceToUInt32(btc, eo)
    ELSE IF kind = "slice32err" THEN ConvertBytesSliceToUInt32WithError(btc, eo)
    ELSE ConvertBytesSliceToUInt64(btc, eo)

BytesResult(kind, b, eo) ==
    IF kind = "bytes16" THEN ConvertBytesToUInt16(b[1], b[2], eo)
    ELSE IF kind = "bytes32" THEN ConvertBytesToUInt32(b[1], b[2], b[3], b[4], eo)
    ELSE ConvertBytesToUInt64(b[1], b[2], b[3], b[4], b[5], b[6], b[7], b[8], eo)

InitCodec ==
    /\ desc \in HeaderInputs \cup BytesInputs \cup SliceInputs
    /\ img = [st |-> "input", out |-> <<>>]
    /\ params = CHOOSE p \in Params : TRUE
    /\ mainPc = "unit"
    /\ fswg = 0 /\ icwg = 0
    /\ itcc = <<>> /\ dsc = <<>>
    /\ itccClosed = FALSE /\ dscClosed = FALSE
    /\ prod = Idle
    /\ cons = [pc |-> "idle", ri |-> NoImage, sentinel |-> FALSE]
    /\ images = <<>>
    /\ convertedImageCount = 0
    /\ reported = -1
    /\ crashed = FALSE

\* parseHeaderBytes(header)
ParseHeader ==
    /\ img.st = "input" /\ desc.kind = "header"
    /\ img' = [st |-> "done", out |-> parseHeaderBytes(desc.bytes)]
    /\ UNCHANGED <<desc, params, mainPc, fswg, icwg, itcc, dsc, itccClosed,
                   dscClosed, prod, cons, images, convertedImageCount,
                   reported, crashed>>

\* utils.ConvertBytesToUInt16 / UInt32 / UInt64
ConvertBytes ==
    /\ img.st = "input" /\ desc.kind \in {"bytes16", "bytes32", "bytes64"}
    /\ img' = [st |-> "done", out |-> BytesResult(desc.kind, desc.bytes, desc.eo)]
    /\ UNCHANGED <<desc, params, mainPc, fswg, icwg, itcc, dsc, itccClosed,
                   dscClosed, prod, cons, images, convertedImageCount,
                   reported, crashed>>

\* utils.ConvertBytesSliceToUInt16 / UInt32 / UInt64
ConvertSlice ==
    /\ img.st = "input" /\ desc.kind \in SliceKinds
    /\ img' = [st |-> "done", out |-> SliceResult(desc.kind, desc.bytes, desc.eo)]
    /\ UNCHANGED <<desc, params, mainPc, fswg, icwg, itcc, dsc, itccClosed,
                   dscClosed, prod, cons, images, convertedImageCount,
                   reported, crashed>>

NextCodec == ParseHeader \/ ConvertBytes \/ ConvertSlice

SpecCodec == InitCodec /\ [][NextCodec]_vars

(***************************************************************************)
(* Storage device checker (cltools/storage_device_checker.go).  A data     *)
(* file is its bytes; the files are ChunkLen bytes long here (1024*1000 in *)
(* the code), and md5.Sum is a 16-byte weighted checksum.                  *)
(***************************************************************************)
ChunkLen == 34

\* md5.Size, and the 17 bytes verify clears
HashLen == 16
ZeroedLen == 17

RECURSIVE WeightedSum(_, _, _)
WeightedSum(b, k, i) ==
    IF i > Len(b) THEN 0
    ELSE (b[i] * (i + k) + WeightedSum(b, k, i + 1)) % 256

\* md5.Sum(bytes)
Md5(b) == [k \in 1..HashLen |-> WeightedSum(b, k, 1)]

\* rand.Seed(int64(fileCount)); byte(rand.Intn(254)) for the byte at j
Rand(seed, j) == (seed * 31 + j * 17) % 254

\* The bytes writeDataToLocation writes to file number fileCount: zeros,
\* random bytes in the second half, then the sum of that over the first 16
FileBytes(fileCount) ==
    LET bytesToWrite == [j \in 1..ChunkLen |->
                            IF j > ChunkLen \div 2 THEN Rand(fileCount, j)
                            ELSE 0]
        fileMd5 == Md5(bytesToWrite)
    IN  [j \in 1..ChunkLen |->
            IF j <= HashLen THEN fileMd5[j] ELSE bytesToWrite[j]]

\* The loop of writeDataToLocation; failAt is the file whose write fails
\* (0: none)
RECURSIVE writeLoop(_, _, _, _, _)
writeLoop(size, failAt, totalWrittenBytes, fileCount, files) ==
    IF totalWrittenBytes <= size - ChunkLen
    THEN IF failAt = fileCount
         THEN [fileCount |-> fileCount, files |-> files]
         ELSE writeLoop(size, failAt, totalWrittenBytes + ChunkLen,
                        fileCount + 1, Append(files, FileBytes(fileCount)))
    ELSE [fileCount |-> fileCount, files |-> files]

\* writeDataToLocation(location, size)
writeDataToLocation(size, failAt) == writeLoop(size, failAt, 0, 1, <<>>)

\* compareHashBytes
compareHashBytes(hashBytes1, hashBytes2) ==
    IF Len(hashBytes1) # Len(hashBytes2) THEN FALSE
    ELSE \A i \in 1..Len(hashBytes1) : hashBytes1[i] = hashBytes2[i]

\* The loop of verify from file i on: the 16 checksum bytes read first are
\* not used; the whole file is read, its first 17 bytes are cleared, and
\* the sum of that is compared with the cleared buffer itself
RECURSIVE verifyFrom(_, _, _)
verifyFrom(i, fileCount, files) ==
    IF i >= fileCount THEN TRUE
    ELSE LET fullFileBytes == [j \in 1..ChunkLen |->
                                IF j <= ZeroedLen THEN 0 ELSE files[i][j]]
             checksumFromFileContents == Md5(fullFileBytes)
         IN  IF compareHashBytes(checksumFromFileContents, fullFileBytes)
             THEN FALSE
             ELSE verifyFrom(i + 1, fileCount, files)

\* verify(fileCount, location)
verify(fileCount, files) == verifyFrom(1, fileCount, files)

\* sizeToWrite values: less than one file, one file, two files
SdcSizes == {1, ChunkLen, 2 * ChunkLen, 3 * ChunkLen - 1}

SdcInputs == [size : SdcSizes, failAt : 0..2]

InitSdc ==
    /\ desc \in SdcInputs
    /\ img = [st |-> "sdcStart", fileCount |-> 1, files |-> <<>>,
              passed |-> FALSE]
    /\ params = CHOOSE p \in Params : TRUE
    /\ mainPc = "unit"
    /\ fswg = 0 /\ icwg = 0
    /\ itcc = <<>> /\ dsc = <<>>
    /\ itccClosed = FALSE /\ dscClosed = FALSE
    /\ prod = Idle
    /\ cons = [pc |-> "idle", ri |-> NoImage, sentinel |-> FALSE]
    /\ images = <<>>
    /\ convertedImageCount = 0
    /\ reported = -1
    /\ crashed = FALSE

\* RunSdc: fileCount, ... := writeDataToLocation(locationPath, sizeToWrite)
SdcWrite ==
    /\ img.st = "sdcStart"
    /\ img' = [st |-> "sdcWritten", passed |-> FALSE]
                @@ writeDataToLocation(desc.size, desc.failAt)
    /\ UNCHANGED <<desc, params, mainPc, fswg, icwg, itcc, dsc, itccClosed,
                   dscClosed, prod, cons, images, convertedImageCount,
                   reported, crashed>>

\* The device under test returns one byte of one written file altered
SdcCorrupt ==
    /\ img.st = "sdcWritten"
    /\ \E k \in 1..Len(img.files), j \in 1..ChunkLen :
        img' = [img EXCEPT !.st = "sdcCorrupted",
                           !.files[k][j] = (@ + 1) % 256]
    /\ UNCHANGED <<desc, params, mainPc, fswg, icwg, itcc, dsc, itccClosed,
                   dscClosed, prod, cons, images, convertedImageCount,
                   reported, crashed>>

\* RunSdc: passed = verify(fileCount, locationPath)
SdcVerify ==
    /\ img.st \in {"sdcWritten", "sdcCorrupted"}
    /\ img' = [img EXCEPT !.st = "sdcVerified",
                          !.passed = verify(img.fileCount, img.files)]
    /\ UNCHANGED <<desc, params, mainPc, fswg, icwg, itcc, dsc, itccClosed,
                   dscClosed, prod, cons, images, convertedImageCount,
                   reported, crashed>>

NextSdc == SdcWrite \/ SdcCorrupt \/ SdcVerify

SpecSdc == InitSdc /\ [][NextSdc]_vars

(***************************************************************************)
(* Properties                                                              *)
(***************************************************************************)
Ids == 1..Len(images)

Handed(i) == images[i].st \in {"converting", "returned", "panicked"}

\* C1: when the converter has received the true sentinel, and when RunRtc is
\* past icwg.Wait(), every image the walker opened has been enqueued, dequeued
\* and taken through convertToCompressed, and the image channel is empty.
C1_DrainBeforeSentinel ==
    (cons.sentinel \/ mainPc \in {"closeDsc", "closeItcc", "report", "returned"})
        => /\ itcc = <<>>
           /\ \A i \in Ids : images[i].st = "returned"

C1_Witness ==
    /\ cons.sentinel
    /\ Len(images) >= 2
    /\ \A i \in Ids : images[i].st = "returned"

\* C2: the true sentinel is sent only once findImagesInDir has returned at
\* every level: while the walk runs fswg equals the number of levels not yet
\* returned, RunRtc is past fswg.Wait() only when the walker is done, and no
\* false token follows the sentinel in the control channel.
C2_SentinelAfterWalk ==
    /\ prod.pc # "idle" => fswg = prod.depth
    /\ (mainPc \in {"sendTrue", "waitIc"} \/ cons.sentinel)
            => prod.pc = "done" /\ prod.depth = 0 /\ prod.held = NoImage
    /\ \A i, j \in 1..Len(dsc) : (i < j /\ dsc[i]) => dsc[j]

C2_Witness ==
    /\ prod.dirs >= 2
    /\ \E i, j \in 1..Len(dsc) : i < j /\ ~dsc[i] /\ dsc[j]

FailureExits == {"outputExists", "subDirFail", "loadFail", "createFail",
                 "decodeFail"}

\* C3: a failing image never stops the batch: convertToCompressed returns to
\* the converter's loop (the process does not crash on it) and the image is not
\* counted as converted.
C3_FailureDoesNotStopBatch ==
    \A i \in Ids : images[i].exit \in FailureExits =>
        /\ images[i].st = "returned"
        /\ ~images[i].counted

\* C4: an image that convertToCompressed has returned from has its file closed.
C4_ClosedOnEveryExit ==
    \A i \in Ids : images[i].st = "returned" => images[i].handle = "closed"

\* C5: at most one image is inside convertToCompressed at any time, and no
\* handle is read or seeked by more than one task.
C5_SequentialDecode ==
    /\ Cardinality({i \in Ids : images[i].st = "converting"}) <= 1
    /\ \A i \in Ids : Cardinality(images[i].users) <= 1

C5_Witness ==
    \E i, j \in Ids :
        /\ images[i].st = "returned" /\ images[i].users = {"converter"}
        /\ images[j].st = "converting"

C9_Cr2Unsupported ==
    \A i \in Ids :
        (images[i].variant = "cr2" /\ images[i].st = "returned"
            /\ images[i].exit \notin {"outputExists", "subDirFail", "badOutputType"})
        => /\ images[i].err = "unsupportedFormat"
           /\ ~images[i].counted

\* C10: nefImage.convertToJPEG / convertToPNG return a decode error when the
\* embedded bytes are not a JPEG, and an I/O error when the output file cannot
\* be created.
C10_DecodeAndCreateErrors ==
    \A i \in Ids :
        /\ images[i].exit = "decodeFail" =>
                images[i].st = "returned" /\ images[i].err = "decodeErr"
        /\ images[i].exit = "createFail" =>
                images[i].st = "returned" /\ images[i].err = "createErr"


\* C6: when IFD0 of a loaded image carries a Sub-IFD offsets tag of type
\* LONG holding k offsets, the image's IFD list has exactly 1 + k entries:
\* IFD0 first, then the directory stored at each Sub-IFD offset, in the
\* order the offsets are listed; the GPS directory is held inside IFD0 and
\* is no entry of the list.
C6_IFDListOrder ==
    (img # NoImg /\ img.st # "opened" /\ desc \in SubDescs /\ desc.k >= 0
        /\ desc.subType = unsignedLongType)
    => /\ img.st = "loaded"
       /\ Len(img.ifds) = 1 + desc.k
       /\ \A j \in 1..desc.k : img.ifds[1 + j].ImageWidth = SubWidthBase + (j - 1)
       /\ \A j \in 1..Len(img.ifds) : j > 1 => img.ifds[j].GpsIFD = <<>>
       /\ desc.gps => img.ifds[1].GpsIFD # <<>>

\* The same statement for offsets stored as an array at valueOrOffset
C6_ArrayOrder ==
    (img # NoImg /\ img.st # "opened" /\ desc \in SubDescs /\ desc.k >= 0
        /\ desc.subType = unsignedLongType /\ ~desc.inline)
    => /\ img.st = "loaded"
       /\ Len(img.ifds) = 1 + desc.k
       /\ img.ifds[1].SubIFDOffsets = [j \in 1..desc.k |-> SubOffset(j - 1)]
       /\ \A j \in 1..desc.k : img.ifds[1 + j].ImageWidth = SubWidthBase + (j - 1)
       /\ \A j \in 1..Len(img.ifds) : j > 1 => img.ifds[j].GpsIFD = <<>>
       /\ desc.gps => img.ifds[1].GpsIFD # <<>>

\* C7: a record whose tag is handled but whose declared type is not the
\* type the tag expects leaves the tag's field at its default and raises
\* no error.
C7_TypeMismatchIgnored ==
    (img # NoImg /\ img.st # "opened" /\ desc \in ProbeDescs
        /\ desc.probeTag \in HandledTags /\ desc.probeTag # artistTag
        /\ desc.probeType # ExpectedType(desc.probeTag))
    => /\ img.st = "loaded"
       /\ img.ifds[1][FieldOf(desc.probeTag)] = EmptyIFD[FieldOf(desc.probeTag)]

\* The same statement for declared types that differ from the expected
\* type in their low byte
C7_LowByteMismatchIgnored ==
    (img # NoImg /\ img.st # "opened" /\ desc \in ProbeDescs
        /\ desc.probeTag \in HandledTags /\ desc.probeTag # artistTag
        /\ desc.probeType % 256 # ExpectedType(desc.probeTag))
    => /\ img.st = "loaded"
       /\ img.ifds[1][FieldOf(desc.probeTag)] = EmptyIFD[FieldOf(desc.probeTag)]

\* C11: when Load returned without error and left fewer than two IFDs (no
\* Sub-IFD), the conversion creates no output file (the output path is as
\* it was before the call) and returns no error.
C11_NoPreviewNoOutput ==
    \A i \in Ids :
        (images[i].st = "returned" /\ images[i].ifds = 1)
        => /\ images[i].out = images[i].pre
           /\ images[i].err = "nil"

C11_Witness ==
    \E i \in Ids :
        /\ images[i].st = "returned" /\ images[i].ifds = 1
        /\ images[i].exit = "fewIFDs" /\ images[i].out = "absent"

\* C12: the count RunRtc reports at the end of a run equals the number of
\* images for which the run produced an output file.
C12_CountEqualsOutputs ==
    reported # -1
    => reported = Cardinality({i \in Ids : images[i].out # images[i].pre})

\* C13: for every 8-byte header, parseHeaderBytes returns no error and the
\* byte order is BigEndian when the first two bytes are 0x4D 0x4D,
\* LittleEndian when they are 0x49 0x49, and BigEndian for any other marker.
C13_EndianFromMarker ==
    (img # NoImg /\ img.st = "done" /\ desc.kind = "header")
    => /\ img.out.err = "nil"
       /\ img.out.hdr.endianOrder =
            (IF desc.bytes[1] = 73 /\ desc.bytes[2] = 73 THEN LittleEndian
             ELSE BigEndian)

C13_Witness ==
    /\ img # NoImg /\ img.st = "done" /\ desc.kind = "header"
    /\ desc.bytes[1] = 73 /\ desc.bytes[2] = 77
    /\ img.out.err = "nil" /\ img.out.hdr.endianOrder = BigEndian

\* The results a slice decoder gives for the slices of the accepted length
SuccessResults(kind) ==
    {SliceResult(kind, b, eo) : b \in [1..Width(kind) -> SliceBytes],
                                eo \in Orders}

\* C14: a slice decoder handed a slice whose length is not the accepted one
\* returns an outcome that no slice of the accepted length produces, so the
\* caller can tell the failure from a decoded value.
C14_BadLengthDistinguishable ==
    (img # NoImg /\ img.st = "done" /\ desc.kind \in SliceKinds
        /\ Len(desc.bytes) # Width(desc.kind))
    => img.out \notin SuccessResults(desc.kind)

\* The same statement for the (uint32, error) form of ConvertBytesSliceToUInt32
C14_ErrorFormDistinguishable ==
    (img # NoImg /\ img.st = "done" /\ desc.kind = "slice32err"
        /\ Len(desc.bytes) # Width(desc.kind))
    => img.out \notin SuccessResults(desc.kind)

Reverse(b) == [i \in 1..Len(b) |-> b[Len(b) + 1 - i]]

\* The base-256 digits of a result, most significant first: a uint16 or
\* uint32 is a number, a uint64 is already its eight digits
Digits(kind, v) ==
    IF kind = "bytes16" THEN <<v \div 256, v % 256>>
    ELSE IF kind = "bytes32"
    THEN <<v \div 16777216, (v \div 65536) % 256, (v \div 256) % 256, v % 256>>
    ELSE v

\* C15: ConvertBytesToUInt16/32/64 return the unsigned integer whose bytes,
\* most significant first, are the arguments in order under BigEndian and
\* the arguments in reverse order under LittleEndian; the BigEndian result
\* on a byte sequence equals the LittleEndian result on the reversed one.
C15_ByteOrder ==
    (img # NoImg /\ img.st = "done"
        /\ desc.kind \in {"bytes16", "bytes32", "bytes64"})
    => /\ Digits(desc.kind, img.out) =
            (IF desc.eo = BigEndian THEN desc.bytes ELSE Reverse(desc.bytes))
       /\ BytesResult(desc.kind, desc.bytes, BigEndian)
            = BytesResult(desc.kind, Reverse(desc.bytes), LittleEndian)

C15_Witness ==
    /\ img # NoImg /\ img.st = "done" /\ desc.kind = "bytes32"
    /\ desc.eo = LittleEndian /\ desc.bytes = <<1, 255, 0, 127>>
    /\ img.out = 2130771713

\* C16: Load on a file of 1024 bytes or less (whose size Stat reports)
\* fails with the file-too-small error before any byte of the file is read
\* (the handle is where it was), and the image's IFD list stays empty.
C16_TooSmallRejected ==
    (img # NoImg /\ img.st \notin {"opened", "input", "done"}
        /\ desc.size <= 1024 /\ desc.io # "statErr")
    => /\ img.st = "failed"
       /\ img.err = "File is less than 1KB in size"
       /\ img.ifds = <<>>
       /\ img.h.pos = 0

C16_Witness ==
    /\ img # NoImg /\ img.st = "failed" /\ desc.size = 1024
    /\ desc.io = "ok" /\ img.err = "File is less than 1KB in size"

\* C17: for every 8-byte header, the parsed magic number is the unsigned
\* 16-bit integer formed from header bytes 2 and 3 under the detected byte
\* order, whatever its value, and no error is returned.
C17_MagicNumber ==
    (img # NoImg /\ img.st = "done" /\ desc.kind = "header")
    => /\ img.out.err = "nil"
       /\ img.out.hdr.magicNum =
            ConvertBytesToUInt16(desc.bytes[3], desc.bytes[4],
                                 img.out.hdr.endianOrder)

\* The part of C17 that holds: whatever bytes 2 and 3 are, a value is
\* stored and no error is returned; for the magic number 42 that value is 42
C17_MagicStoredNoError ==
    (img # NoImg /\ img.st = "done" /\ desc.kind = "header")
    => /\ img.out.err = "nil"
       /\ img.out.hdr.magicNum = BitOr(desc.bytes[3], desc.bytes[4])
       /\ (ConvertBytesToUInt16(desc.bytes[3], desc.bytes[4],
                                img.out.hdr.endianOrder) = 42
            => img.out.hdr.magicNum = 42)

\* The field values a probe directory was encoded from
RoundTripTags ==
    {subfileTypeTag, gpsInfoTag} \cup DOMAIN ShortCases \cup DOMAIN BufferCases
        \cup {t \in DOMAIN ValueCases : ValueCases[t][1] = unsignedLongType}

Original(tag) ==
    IF tag = subfileTypeTag THEN 1
    ELSE IF tag = gpsInfoTag THEN <<[GPSVersionID |-> GPSVersion]>>
    ELSE IF tag = bitsPerSampleTag THEN BitsValues
    ELSE IF tag \in DOMAIN BufferCases THEN SubSeq(TextBytes, 1, ProbeCount(tag))
    ELSE ProbeValue

\* C18: a directory encoded from field values, in either byte order, and
\* decoded with parseIFDBytes / parseGPSIFDBytes gives back the same field
\* values (SubFileType, BitsPerSample and GPSVersionID included).
C18_RoundTrip ==
    (img # NoImg /\ img.st \notin {"opened", "input", "done"}
        /\ desc \in ProbeDescs /\ desc.probeTag \in RoundTripTags
        /\ desc.probeTag # artistTag
        /\ desc.probeType = ExpectedType(desc.probeTag))
    => /\ img.st = "loaded"
       /\ img.ifds[1][FieldOf(desc.probeTag)] = Original(desc.probeTag)

\* The part of C18 that holds: LONG and SHORT scalars and the strings
C18_ScalarRoundTrip ==
    (img # NoImg /\ img.st \notin {"opened", "input", "done"}
        /\ desc \in ProbeDescs
        /\ desc.probeTag \in RoundTripTags
                \ {subfileTypeTag, gpsInfoTag, bitsPerSampleTag, artistTag}
        /\ desc.probeType = ExpectedType(desc.probeTag))
    => /\ img.st = "loaded"
       /\ img.ifds[1][FieldOf(desc.probeTag)] = Original(desc.probeTag)

\* SubFileType, BitsPerSample and GPSVersionID one by one
C18_SubFileType ==
    (img # NoImg /\ img.st \notin {"opened", "input", "done"}
        /\ desc \in ProbeDescs /\ desc.probeTag = subfileTypeTag
        /\ desc.probeType = unsignedLongType)
    => img.st = "loaded" /\ img.ifds[1].SubFileType = Original(subfileTypeTag)

C18_BitsPerSample ==
    (img # NoImg /\ img.st \notin {"opened", "input", "done"}
        /\ desc \in ProbeDescs /\ desc.probeTag = bitsPerSampleTag
        /\ desc.probeType = unsignedShortType)
    => img.st = "loaded" /\ img.ifds[1].BitsPerSample = Original(bitsPerSampleTag)

C18_GPSVersionID ==
    (img # NoImg /\ img.st \notin {"opened", "input", "done"}
        /\ desc \in ProbeDescs /\ desc.probeTag = gpsInfoTag
        /\ desc.probeType = unsignedLongType)
    => img.st = "loaded" /\ img.ifds[1].GpsIFD = Original(gpsInfoTag)

\* C19: a record whose tag is none of the handled tags changes no field of
\* the directory being built and raises no error, and decoding goes on with
\* the next record: the only fields set are those of the records after it.
C19_UnknownTagIgnored ==
    (img # NoImg /\ img.st \notin {"opened", "input", "done"}
        /\ desc \in UnknownDescs \cup ProbeDescs
        /\ desc.probeTag \in UnknownTags)
    => /\ img.st = "loaded" /\ img.err = "nil"
       /\ desc \in ProbeDescs => img.ifds = <<EmptyIFD>>
       /\ desc \in UnknownDescs =>
            /\ Len(img.ifds) = 2
            /\ img.ifds[1].GpsIFD # <<>>
            /\ img.ifds[1] = [EmptyIFD EXCEPT !.GpsIFD = img.ifds[1].GpsIFD,
                                              !.SubIFDOffsets = <<SubOffset(0)>>]

C19_Witness ==
    /\ img # NoImg /\ img.st = "loaded" /\ desc \in UnknownDescs
    /\ desc.probeTag = UnknownTag /\ desc.probeType = unsignedLongType
    /\ img.ifds[1].ImageWidth = 0
    /\ img.ifds[1].SubIFDOffsets = <<SubOffset(0)>>

\* C20: for every accepted record, the decoder reads nothing more from the
\* file when elementCount x type-size is at most 4 bytes (the value is in
\* the record), and otherwise seeks to valueOrOffset and reads exactly
\* elementCount x type-size bytes (the handle ends right after them).
C20_InlineOrSeek ==
    (img # NoImg /\ img.st \notin {"opened", "input", "done"}
        /\ desc \in ProbeDescs
        /\ desc.probeTag \in HandledTags \ {gpsInfoTag}
        /\ desc.probeType = ExpectedType(desc.probeTag))
    => /\ img.st = "loaded"
       /\ LET size == ProbeCount(desc.probeTag) * TypeSize(desc.probeType)
          IN  img.h.pos = IF size <= 4 THEN DirEnd
                          ELSE ProbeOffset(desc.probeTag) + size

\* The part of C20 that holds: single LONG and SHORT values are taken from
\* the record, and ReferenceBlackWhite is read as 8 bytes at valueOrOffset
C20_ScalarsAndRational ==
    (img # NoImg /\ img.st \notin {"opened", "input", "done"}
        /\ desc \in ProbeDescs
        /\ desc.probeTag \in {subfileTypeTag, referenceBlackWhiteTag}
                \cup DOMAIN ShortCases
                \cup {t \in DOMAIN ValueCases :
                            ValueCases[t][1] = unsignedLongType}
        /\ desc.probeType = ExpectedType(desc.probeTag))
    => /\ img.st = "loaded"
       /\ LET size == ProbeCount(desc.probeTag) * TypeSize(desc.probeType)
          IN  img.h.pos = IF size <= 4 THEN DirEnd
                          ELSE ProbeOffset(desc.probeTag) + size

\* C21: for every tag count N read from the 2-byte prefix of a directory,
\* readIFDBytes returns a body of exactly N x 12 bytes (the handle ends
\* right after them) and parseIFDBytes goes through exactly N records
\* without indexing past the end of the body.
C21_ExactRecords ==
    (img # NoImg /\ img.st \notin {"opened", "input", "done"}
        /\ desc \in CountDescs)
    => /\ img.st = "loaded"
       /\ img.records = desc.count
       /\ img.h.pos = IFD0At + CountLen + desc.count * RecordLen

\* The part of C21 that holds: counts whose body length fits 16 bits
C21_SmallCounts ==
    (img # NoImg /\ img.st \notin {"opened", "input", "done"}
        /\ desc \in CountDescs /\ desc.count * RecordLen < 65536)
    => /\ img.st = "loaded"
       /\ img.records = desc.count
       /\ img.h.pos = IFD0At + CountLen + desc.count * RecordLen

\* The place in the log of the first read made at offset off (0: none)
FirstRead(log, off) ==
    IF \E n \in 1..Len(log) : log[n][1] = off
    THEN CHOOSE n \in 1..Len(log) :
            log[n][1] = off /\ \A m \in 1..(n - 1) : log[m][1] # off
    ELSE 0

\* C22: decoding IFD0 records the GPS pointer as an offset and reads no
\* other directory before IFD0 is finished (its Sub-IFD offsets array, the
\* out-of-line data of a later record, is read before the GPS directory);
\* Load then reads the GPS directory before any Sub-IFD, and the Sub-IFDs
\* in array order.
C22_PointersThenLoad ==
    (img # NoImg /\ img.st \notin {"opened", "input", "done"}
        /\ desc \in SubDescs /\ desc.gps /\ desc.k >= 1 /\ ~desc.inline
        /\ desc.subType = unsignedLongType)
    => /\ img.st = "loaded"
       /\ img.ifds[1].GpsInfo = GPSAt
       /\ FirstRead(img.h.log, SubArrayAt) > 0
       /\ FirstRead(img.h.log, SubArrayAt) < FirstRead(img.h.log, GPSAt)
       /\ \A j \in 0..(desc.k - 1) :
            /\ FirstRead(img.h.log, GPSAt) < FirstRead(img.h.log, SubOffset(j))
            /\ j > 0 => FirstRead(img.h.log, SubOffset(j - 1))
                            < FirstRead(img.h.log, SubOffset(j))

\* The part of C22 that holds: the GPS directory is read before every
\* Sub-IFD, the Sub-IFDs are read in array order, and the EXIF pointer is
\* recorded without any read at the offset it holds
C22_GpsBeforeSubIFDs ==
    /\ (img # NoImg /\ img.st \notin {"opened", "input", "done"}
            /\ desc \in SubDescs /\ desc.gps /\ desc.k >= 1 /\ ~desc.inline
            /\ desc.subType = unsignedLongType)
       => /\ img.st = "loaded"
          /\ FirstRead(img.h.log, GPSAt) > 0
          /\ \A j \in 0..(desc.k - 1) :
                /\ FirstRead(img.h.log, GPSAt)
                        < FirstRead(img.h.log, SubOffset(j))
                /\ j > 0 => FirstRead(img.h.log, SubOffset(j - 1))
                                < FirstRead(img.h.log, SubOffset(j))
    /\ (img # NoImg /\ img.st \notin {"opened", "input", "done"}
            /\ desc \in ProbeDescs /\ desc.probeTag = exifOffsetTag
            /\ desc.probeType = unsignedLongType)
       => /\ img.st = "loaded"
          /\ img.ifds[1].ExifOffset = ProbeValue
          /\ FirstRead(img.h.log, ProbeValue) = 0

\* C23: when a read of a directory's tag count, of its body or of a tag's
\* out-of-line data gets fewer bytes than it asked for, Load returns an
\* error: it never returns success with fields built from bytes that were
\* not read from the file.
C23_ReadFailureReturned ==
    (img # NoImg /\ img.st \notin {"opened", "input", "done"}
        /\ desc \in FarDescs
        /\ \E n \in 1..Len(img.h.log) : img.h.log[n][3] < img.h.log[n][2])
    => img.st = "failed"

\* The part of C23 that holds: an error of Stat or of the read of the
\* 8-byte header is returned by Load, and no directory is decoded
C23_HeaderErrorReturned ==
    (img # NoImg /\ img.st \notin {"opened", "input", "done"}
        /\ desc \in EdgeDescs /\ desc.io # "ok" /\ ~TooSmall(desc.size))
    => /\ img.st = "failed" /\ img.err = desc.io
       /\ img.ifds = <<>>

\* The directory at offset off decoded through handle h left at position p
Redecode(h, p, off, hdr) ==
    parseIFDBytesOf(readIFDBytes([h EXCEPT !.pos = p], off, hdr.endianOrder),
                    hdr).ifd

\* Positions to start a decode from, other than those Load started from:
\* where Load left the handle (after the last nested read), and the end of
\* the file
StartsOf(h) == {h.pos, h.f.size}

\* C24: the IFD decoded from a given offset does not depend on where the
\* handle stood before the decode: IFD0 and every Sub-IFD, decoded again
\* with the handle at the position the nested GPS and Sub-IFD reads of
\* Load left it at, or at the end of the file, equal what Load decoded
\* (IFD0 with the handle right after the header, each Sub-IFD with it
\* after the directory before).
C24_PositionIndependent ==
    (img # NoImg /\ img.st = "loaded"
        /\ desc \in ProbeDescs \cup SubDescs \cup UnknownDescs)
    => \A p \in StartsOf(img.h) :
        /\ Redecode(img.h, p, img.header.tiffOffset, img.header) = img.ifds[1]
        /\ \A j \in 1..Len(img.ifds[1].SubIFDOffsets) :
                Redecode(img.h, p, img.ifds[1].SubIFDOffsets[j], img.header)
                    = img.ifds[j + 1]

C24_Witness ==
    /\ img # NoImg /\ img.st = "loaded"
    /\ desc \in SubDescs /\ desc.gps /\ desc.k = MaxSubIFDs
    /\ desc.subType = unsignedLongType
    /\ Len(img.ifds) = MaxSubIFDs + 1
    /\ img.ifds[1].GpsIFD # <<>>
    /\ img.h.pos = SubOffset(MaxSubIFDs - 1) + CountLen + RecordLen
    /\ Redecode(img.h, img.h.pos, IFD0At, img.header) = img.ifds[1]
    /\ img.ifds[1].SubIFDOffsets = <<SubOffset(0), SubOffset(1)>>

\* The `false` tokens waiting in the control channel
NumFalse(q) == Cardinality({i \in 1..Len(q) : q[i] = FALSE})

\* C25: the images waiting in imagesToConvertChan are at least as many as
\* the `false` tokens waiting in doneSearchingChan; a consumer that has
\* taken a `false` token finds an image waiting for it (one more than the
\* tokens still queued); and a nil image is received only after the
\* channels were closed.
C25_ImagesCoverTokens ==
    /\ Len(itcc) >= NumFalse(dsc)
    /\ (cons.pc = "recvImg" /\ ~dscClosed) => Len(itcc) >= NumFalse(dsc) + 1
    /\ (cons.pc = "wgDone" /\ cons.ri = NoImage) => (dscClosed /\ itccClosed)

C25_Witness ==
    /\ cons.pc = "recvImg" /\ ~dscClosed /\ ~crashed
    /\ NumFalse(dsc) = 1 /\ Len(itcc) = 2
    /\ prod.pc = "scan"

\* C26: with more images than the channels hold, every run in which each
\* goroutine that can step does step, and no conversion panics, reaches the
\* final report: the walker does not stay blocked on a full channel, nor
\* the main task on the sentinel send or on a wait group.
C26_ReachesReport == <>(reported # -1 \/ crashed)

C26_Witness ==
    /\ reported = 0 /\ ~crashed /\ mainPc = "returned"
    /\ Len(images) = ChanCap + 1 + MaxEntries
    /\ \A i \in 1..Len(images) : images[i].st = "returned"

\* C27: once the consumer has received the `true` sentinel it takes no
\* further step: nothing more is received from either channel and the
\* images wait group is not touched again, also after the main task has
\* closed both channels.
C27_StopsAfterSentinel ==
    [][cons.sentinel =>
        /\ cons' = cons
        /\ dsc' = dsc /\ itcc' = itcc /\ icwg' = icwg]_vars

\* The part of C27 that holds: until doneSearchingChan is closed the
\* consumer that has received the sentinel stays blocked in its receive
C27_ParkedUntilClose ==
    [][(cons.sentinel /\ ~dscClosed) =>
        /\ cons' = cons
        /\ dsc' = dsc /\ itcc' = itcc /\ icwg' = icwg]_vars

\* C28: a conversion that fails after the overwrite check (the embedded
\* bytes do not decode as JPEG, or encoding fails) leaves the output path
\* as it was: no new file, and the previous content of an old one.
C28_FailedConversionLeavesOutput ==
    \A i \in 1..Len(images) :
        images[i].exit \in {"decodeFail", "encodeFail"}
            => images[i].out = images[i].pre

\* The part of C28 that holds: a conversion that ends before os.Create
\* succeeds leaves the output path as it was
C28_EarlyFailureLeavesOutput ==
    \A i \in 1..Len(images) :
        images[i].exit \in {"subDirFail", "outputExists", "badOutputType",
                            "loadPanic", "loadFail", "fewIFDs", "createFail",
                            "cr2Stub"}
            => images[i].out = images[i].pre

\* The image files opened by the walker and not closed
OpenFiles == {i \in 1..Len(images) : images[i].handle = "open"}

\* C29: the image files opened and not yet closed are never more than the
\* image channel holds plus two (one held by the walker, one with the
\* converter).
C29_OpenFilesBounded == Cardinality(OpenFiles) <= ChanCap + 2

\* The part of C29 that holds: the images between os.Open and the end of
\* their conversion are never more than the channel holds plus two
C29_InFlightBounded ==
    Cardinality({i \in 1..Len(images) :
                    images[i].st \in {"held", "queued", "taken", "converting"}})
        <= ChanCap + 2

\* A data file whose first 16 bytes are the sum writeDataToLocation stored
\* for the rest of its content
Matches(f) ==
    Md5([j \in 1..Len(f) |-> IF j <= HashLen THEN 0 ELSE f[j]])
        = SubSeq(f, 1, HashLen)

\* C30: verify returns false when the content of at least one written data
\* file does not match the checksum in its first 16 bytes, and true when
\* every written file matches.
C30_VerifyDetectsMismatch ==
    img.st = "sdcVerified"
    => (img.passed <=> \A k \in 1..Len(img.files) : Matches(img.files[k]))

\* The part of C30 that holds: verify returns true when every file matches
C30_TrueWhenIntact ==
    (img.st = "sdcVerified" /\ \A k \in 1..Len(img.files) : Matches(img.files[k]))
    => img.passed

====
